---- MODULE Spec2Model ----
(***************************************************************************)
(* Model of the water-consumption pipeline of prototipo_dashboard_agua.py  *)
(* (load_data -> preprocess -> aggregate_period / detect_leaks, driven by  *)
(* the update_all callback) and of the loading prelude of                  *)
(* dashboard_vazao.py.                                                     *)
(*                                                                         *)
(* Units.  The code computes in floating point; the model computes in      *)
(* integers on a grid on which every operation of the code is exact:       *)
(*   timestamps            seconds since 1970-01-01 00:00:00               *)
(*   "Vazao (L/min)"       tenths of a litre per minute                    *)
(*   rates (L/s)           tenths of a litre per second                    *)
(*   volumes (L)           tenths of a litre                               *)
(*   tariff (R$/m3)        centavos per cubic metre                        *)
(* General flow inputs are multiples of 60, so "/ 60.0" is exact.          *)
(***************************************************************************)
EXTENDS Integers, Sequences, FiniteSets, TLC

VARIABLES
    pc,             \* position in the pipeline
    source,         \* the CSV file named by data_path
    tarifa,         \* text of the tarifa-input field handed to update_all
    TARIFA,         \* local TARIFA of update_all
    err,            \* exception that left the callback, "none" otherwise
    df,             \* result of load_data
    vazao_df,       \* df of dashboard_vazao.py after its loading prelude
    der,            \* result of preprocess
    freq,           \* freq argument of aggregate_period
    agg,            \* result of aggregate_period
    threshold_lps,  \* threshold_lps argument of detect_leaks
    i,              \* position of the iterrows() loop of detect_leaks
    in_alert,       \* detect_leaks local
    start,          \* detect_leaks local
    alert_rows,     \* detect_leaks local
    alerts          \* detect_leaks local, its result once pc = "done"

vars == <<pc, source, tarifa, TARIFA, err, df, vazao_df, der, freq, agg,
          threshold_lps, i, in_alert, start, alert_rows, alerts>>

----------------------------------------------------------------------------
\* Program constants

\* len(SENSOR_COLUMNS)
NumSensors == 4

\* TARIFA_POR_M3 = 4.50 R$/m3, in centavos
TARIFA_POR_M3 == 450

\* THRESH_LPS = 0.2 L/s, in tenths of a litre per second
THRESH_LPS == 2

\* start = None before the first alert
NoStart == -1

----------------------------------------------------------------------------
\* Bounds of the model

\* longest reading sequence handed to preprocess
MaxRows == 3

\* longest CSV source handed to load_data
MaxSourceRows == 2

\* "Vazao (L/min)" cells: 0, 6 and 18 L/min
GeneralFlowValues == {0, 60, 180}

\* S1..S4 cells of one row
SensorRows == {<<0, 0, 0, 0>>, <<1, 0, 0, 0>>}

\* seconds between consecutive readings (0: a repeated timestamp)
Gaps == {0, 2}

\* thresholds handed to detect_leaks
Thresholds == {0, THRESH_LPS}

\* freq strings listed by the docstring of aggregate_period
Frequencies == {"T", "H", "D", "W", "M"}

\* first timestamps next to a minute, hour, day, week and month boundary
AggStartTimes == {0, 59, 3599, 86399, 345599, 2678399}

AggGaps == {0, 1}

AggFlowValues == {60, 180}

\* texts of the tarifa-input field; "None" stands for Python's None
TarifaInputs == {"None", "", "4.50", "6", "abc"}

\* parseable timestamps of CSV cells
SourceTimes == {0, 2}

----------------------------------------------------------------------------
\* Arithmetic helpers

RECURSIVE SumSeq(_)
SumSeq(s) == IF s = <<>> THEN 0 ELSE Head(s) + SumSeq(Tail(s))

RECURSIVE MaxSeq(_)
MaxSeq(s) == IF Len(s) = 1 THEN s[1]
             ELSE LET m == MaxSeq(Tail(s)) IN IF s[1] > m THEN s[1] ELSE m

Abs(x) == IF x < 0 THEN -x ELSE x

----------------------------------------------------------------------------
\* preprocess

\* df['geral_lps']: L/min -> L/s
GeralLps(flow) == flow \div 60

\* df['soma_sensores_lps']: sum of the sensor columns of one row
SomaSensores(sens) == SumSeq(sens)

\* mutant of DeltaS: the first row's NaN filled with 0
DeltaSFirstZero(d, k) == IF k = 1 THEN 0 ELSE d[k].ts - d[k - 1].ts

\* df['delta_s']: index.diff() in seconds, the first row's NaN filled with 1
DeltaS(d, k) == IF k = 1 THEN 1 ELSE d[k].ts - d[k - 1].ts

\* one row of the frame preprocess returns
DerivedRow(d, k) ==
    LET r     == d[k]
        geral == GeralLps(r.flow)
        soma  == SomaSensores(r.sens)
        delta == DeltaS(d, k)
    IN  [row |-> r.row, ts |-> r.ts, flow |-> r.flow, sens |-> r.sens,
         geral_lps |-> geral,
         soma_sensores_lps |-> soma,
         delta_s |-> delta,
         volume_geral_l |-> geral * delta,
         volume_sensores_l |-> soma * delta,
         diff_lps |-> Abs(geral - soma)]

\* preprocess(df): the empty frame is returned as it is
PreprocessOf(d) ==
    IF d = <<>> THEN d ELSE [k \in 1..Len(d) |-> DerivedRow(d, k)]

----------------------------------------------------------------------------
\* detect_leaks

\* is_mismatch or is_hidden_leak of one row
IsMismatch(r, thr) == r.diff_lps > thr

IsHiddenLeak(r) == (r.soma_sensores_lps = 0) /\ (r.geral_lps > 0)

IsAnomalous(r, thr) == IsMismatch(r, thr) \/ IsHiddenLeak(r)

\* mutant of DurationOf: the span of the run, also for a run of one row
DurationOfSpanOnly(rows) == rows[Len(rows)].ts - rows[1].ts

\* duration of the buffered run
DurationOf(rows) ==
    IF Len(rows) > 1
    THEN rows[Len(rows)].ts - rows[1].ts
    ELSE SumSeq([k \in 1..Len(rows) |-> rows[k].delta_s])

\* mutant of TypeOf: .any() in place of .all() on the sensor sums
TypeOfAnyZero(rows) ==
    IF (\E k \in 1..Len(rows) : rows[k].soma_sensores_lps = 0)
       /\ (\E k \in 1..Len(rows) : rows[k].geral_lps > 0)
    THEN "hidden_leak" ELSE "mismatch"

\* typ of the buffered run
TypeOf(rows) ==
    IF (\A k \in 1..Len(rows) : rows[k].soma_sensores_lps = 0)
       /\ (\E k \in 1..Len(rows) : rows[k].geral_lps > 0)
    THEN "hidden_leak" ELSE "mismatch"

\* mutant of Summary: the last row's diff_lps in place of the maximum
SummaryLastDiff(rows) ==
    [start        |-> rows[1].ts,
     end          |-> rows[Len(rows)].ts,
     duration_s   |-> DurationOf(rows),
     max_diff_lps |-> rows[Len(rows)].diff_lps,
     type         |-> TypeOf(rows),
     volume_l     |-> SumSeq([k \in 1..Len(rows) |-> rows[k].volume_geral_l])]

\* the dict appended to alerts when a run is closed
Summary(rows) ==
    [start        |-> rows[1].ts,
     end          |-> rows[Len(rows)].ts,
     duration_s   |-> DurationOf(rows),
     max_diff_lps |-> MaxSeq([k \in 1..Len(rows) |-> rows[k].diff_lps]),
     type         |-> TypeOf(rows),
     volume_l     |-> SumSeq([k \in 1..Len(rows) |-> rows[k].volume_geral_l])]

----------------------------------------------------------------------------
\* aggregate_period: df.resample(freq) of pandas

\* lengths of the months of 1970, the year the model's timestamps lie in
MonthLengths == <<31, 28, 31, 30, 31, 30, 31, 31, 30, 31, 30, 31>>

\* last day of the month that holds `day` (days since 1970-01-01)
RECURSIVE MonthEndFrom(_, _, _)
MonthEndFrom(day, m, firstDay) ==
    IF day < firstDay + MonthLengths[m]
    THEN firstDay + MonthLengths[m] - 1
    ELSE MonthEndFrom(day, m + 1, firstDay + MonthLengths[m])

\* the Sunday that ends the week of `day`; 1970-01-01 is a Thursday
WeekEnd(day) == day + ((7 - ((day + 4) % 7)) % 7)

\* label of the bin resample(f) puts a timestamp in: 'T', 'H' and 'D' bins are
\* closed and labelled on the left, 'W' (weeks ending on Sunday) and 'M' (month
\* end) bins hold whole days and are labelled by their last day
BucketOf(f, ts) ==
    CASE f = "T" -> (ts \div 60) * 60
      [] f = "H" -> (ts \div 3600) * 3600
      [] f = "D" -> (ts \div 86400) * 86400
      [] f = "W" -> WeekEnd(ts \div 86400) * 86400
      [] f = "M" -> MonthEndFrom(ts \div 86400, 1, 0) * 86400

\* mutant of InBucket: bins closed on both sides
InBucketBothEndsClosed(f, label, ts) ==
    \/ BucketOf(f, ts) = label
    \/ ts > 0 /\ BucketOf(f, ts - 1) = label

\* membership of a row in a bin
InBucket(f, label, ts) == BucketOf(f, ts) = label

RECURSIVE SortedSeq(_)
SortedSeq(S) ==
    IF S = {} THEN <<>>
    ELSE LET m == CHOOSE x \in S : \A y \in S : x <= y
         IN  <<m>> \o SortedSeq(S \ {m})

\* one row of agg: the 'sum' reducers over the rows of the bin, then m3 and
\* custo_R$ (m3 in 10^-4 m3, custo_R$ in 10^-6 R$, on the integer grid)
BucketRow(d, f, label) ==
    LET rows == SelectSeq(d, LAMBDA r : InBucket(f, label, r.ts))
        vol  == SumSeq([k \in 1..Len(rows) |-> rows[k].volume_geral_l])
    IN  [bucket            |-> label,
         volume_geral_l    |-> vol,
         volume_sensores_l |-> SumSeq([k \in 1..Len(rows) |-> rows[k].volume_sensores_l]),
         sens              |-> [c \in 1..NumSensors |->
                                   SumSeq([k \in 1..Len(rows) |-> rows[k].sens[c]])],
         m3                |-> vol,
         custo             |-> vol * TARIFA_POR_M3]

\* aggregate_period(df, freq).  pandas also returns the bins between the first
\* and the last that hold no row, every sum 0; agg lists the bins that hold rows.
AggregateOf(d, f) ==
    IF d = <<>> THEN d
    ELSE LET labels == SortedSeq({BucketOf(f, d[k].ts) : k \in 1..Len(d)})
         IN  [j \in 1..Len(labels) |-> BucketRow(d, f, labels[j])]

----------------------------------------------------------------------------
\* load_data

\* a parsed row of the CSV: its position in the file and its cells
Reading(raw, k) == [row |-> k, ts |-> raw.cell.t, flow |-> raw.flow, sens |-> raw.sens]

\* pd.to_datetime(df[TIMESTAMP_COL]) raises on a cell it cannot parse
Unparseable(rows) == \E k \in 1..Len(rows) : ~rows[k].cell.ok

\* df.sort_values(col): kind='quicksort' by default, which orders the rows by
\* the column and leaves the order of rows with equal keys unspecified
SortOutcomes(rs) ==
    LET n == Len(rs)
    IN  { [k \in 1..n |-> rs[p[k]]] :
            p \in { q \in Permutations(1..n) :
                      \A a, b \in 1..n : a < b => rs[q[a]].ts <= rs[q[b]].ts } }

\* float(tarifa) for the texts of TarifaInputs; ValueError on the others
IsNumericText(t) == t \in {"4.50", "6"}

FloatOf(t) == IF t = "4.50" THEN 450 ELSE 600

\* truthiness of the tarifa text
IsFalsy(t) == t \in {"None", ""}

----------------------------------------------------------------------------
\* Inputs

\* reading sequences in time order: n rows, first timestamp t0, then gaps
ReadingSeqs(n, starts, gaps, flows, sensRows) ==
    { [k \in 1..n |->
         [row  |-> k,
          ts   |-> t0 + SumSeq([j \in 1..(k - 1) |-> g[j + 1]]),
          flow |-> fl[k],
          sens |-> se[k]]] :
      t0 \in starts, g \in [2..n -> gaps], fl \in [1..n -> flows],
      se \in [1..n -> sensRows] }

\* the CSV file a sorted reading sequence was loaded from
SourceOf(d) ==
    [kind |-> "table",
     rows |-> [k \in 1..Len(d) |->
                 [cell |-> [ok |-> TRUE, t |-> d[k].ts],
                  flow |-> d[k].flow, sens |-> d[k].sens]]]

\* cells of the Timestamp column: a parseable time, or text that is no time
TimestampCells ==
    {[ok |-> TRUE, t |-> t] : t \in SourceTimes} \cup {[ok |-> FALSE, t |-> 0]}

RawRows ==
    [cell : TimestampCells, flow : GeneralFlowValues, sens : SensorRows]

\* the file at data_path: absent, of zero bytes, or a header line and rows
Sources ==
    {[kind |-> "absent", rows |-> <<>>], [kind |-> "zero_byte", rows |-> <<>>]}
    \cup { [kind |-> "table", rows |-> rs] :
             rs \in UNION { [1..n -> RawRows] : n \in 0..MaxSourceRows } }

----------------------------------------------------------------------------
\* State after construction

Locals ==
    /\ der = <<>>
    /\ vazao_df = <<>>
    /\ freq = "D"
    /\ agg = <<>>
    /\ threshold_lps = THRESH_LPS
    /\ i = 0
    /\ in_alert = FALSE
    /\ start = NoStart
    /\ alert_rows = <<>>
    /\ alerts = <<>>
    /\ err = "none"
    /\ tarifa = "4.50"
    /\ TARIFA = TARIFA_POR_M3

\* load_data has returned a time-ordered frame
InitLoaded(seqs) ==
    /\ pc = "loaded"
    /\ df \in seqs
    /\ source = SourceOf(df)
    /\ Locals

Init ==
    InitLoaded(UNION { ReadingSeqs(n, {0}, Gaps, GeneralFlowValues, SensorRows) :
                         n \in 0..MaxRows })

InitAgg ==
    InitLoaded(UNION { ReadingSeqs(n, AggStartTimes, AggGaps, AggFlowValues, SensorRows) :
                         n \in 0..MaxRows })

\* update_all is about to be called
InitLoad ==
    /\ pc = "call"
    /\ source \in Sources
    /\ df = <<>>
    /\ Locals

----------------------------------------------------------------------------
\* Operations

\* update_all, line 243: TARIFA = float(tarifa) if tarifa else TARIFA_POR_M3
UpdateAllTarifa ==
    /\ pc = "call"
    /\ \E t \in TarifaInputs :
         /\ tarifa' = t
         /\ IF IsFalsy(t)
            THEN TARIFA' = TARIFA_POR_M3 /\ pc' = "load" /\ err' = err
            ELSE IF IsNumericText(t)
                 THEN TARIFA' = FloatOf(t) /\ pc' = "load" /\ err' = err
                 ELSE TARIFA' = TARIFA /\ pc' = "raised" /\ err' = "ValueError"
    /\ UNCHANGED <<source, df, vazao_df, der, freq, agg, threshold_lps, i,
                   in_alert, start, alert_rows, alerts>>

\* load_data when os.path.exists(path) is false
LoadAbsent ==
    /\ pc = "load"
    /\ source.kind = "absent"
    /\ df' = <<>>
    /\ pc' = "loaded"
    /\ UNCHANGED err

\* load_data when pd.read_csv or pd.to_datetime raises
LoadRaises ==
    /\ pc = "load"
    /\ \/ source.kind = "zero_byte" /\ err' = "EmptyDataError"
       \/ source.kind = "table" /\ Unparseable(source.rows) /\ err' = "DateParseError"
    /\ pc' = "raised"
    /\ UNCHANGED df

\* load_data on a table whose timestamps all parse
LoadTable ==
    /\ pc = "load"
    /\ source.kind = "table"
    /\ ~Unparseable(source.rows)
    /\ df' \in SortOutcomes([k \in 1..Len(source.rows) |-> Reading(source.rows[k], k)])
    /\ pc' = "loaded"
    /\ UNCHANGED err

LoadData ==
    /\ LoadAbsent \/ LoadRaises \/ LoadTable
    /\ UNCHANGED <<source, tarifa, TARIFA, vazao_df, der, freq, agg, threshold_lps,
                   i, in_alert, start, alert_rows, alerts>>

\* dashboard_vazao.py, lines 22-35: to_datetime(errors="coerce"), dropna,
\* sort_values on the uploaded table
DashboardVazaoLoad ==
    /\ pc = "call"
    /\ source.kind = "table"
    /\ LET kept == SelectSeq([k \in 1..Len(source.rows) |->
                                 [row |-> k, ok |-> source.rows[k].cell.ok,
                                  ts |-> source.rows[k].cell.t,
                                  flow |-> source.rows[k].flow,
                                  sens |-> source.rows[k].sens]],
                             LAMBDA r : r.ok)
       IN  vazao_df' \in SortOutcomes(kept)
    /\ pc' = "vazao_loaded"
    /\ UNCHANGED <<source, tarifa, TARIFA, err, df, der, freq, agg, threshold_lps,
                   i, in_alert, start, alert_rows, alerts>>

Preprocess ==
    /\ pc = "loaded"
    /\ der' = PreprocessOf(df)
    /\ pc' = "derived"
    /\ UNCHANGED <<source, tarifa, TARIFA, err, df, vazao_df, freq, agg,
                   threshold_lps, i, in_alert, start, alert_rows, alerts>>

AggregatePeriod ==
    /\ pc = "derived"
    /\ \E f \in Frequencies :
         /\ freq' = f
         /\ agg' = AggregateOf(der, f)
    /\ pc' = "aggregated"
    /\ UNCHANGED <<source, tarifa, TARIFA, err, df, vazao_df, der,
                   threshold_lps, i, in_alert, start, alert_rows, alerts>>

\* detect_leaks up to the loop: the empty frame returns at once
DetectBegin ==
    /\ pc = "derived"
    /\ \E thr \in Thresholds : threshold_lps' = thr
    /\ alerts' = <<>>
    /\ in_alert' = FALSE
    /\ start' = NoStart
    /\ alert_rows' = <<>>
    /\ IF der = <<>>
       THEN pc' = "done" /\ i' = i
       ELSE pc' = "scan" /\ i' = 1
    /\ UNCHANGED <<source, tarifa, TARIFA, err, df, vazao_df, der, freq, agg>>

\* one iteration of the loop on an anomalous row
DetectAnomalous ==
    /\ pc = "scan"
    /\ i <= Len(der)
    /\ IsAnomalous(der[i], threshold_lps)
    /\ in_alert' = TRUE
    /\ start' = IF in_alert THEN start ELSE der[i].ts
    /\ alert_rows' = Append(IF in_alert THEN alert_rows ELSE <<>>, der[i])
    /\ i' = i + 1
    /\ UNCHANGED <<pc, source, tarifa, TARIFA, err, df, vazao_df, der, freq, agg,
                   threshold_lps, alerts>>

\* mutant of DetectNormal: the closing row is buffered before the run is closed
DetectNormalKeepsClosingRow ==
    /\ pc = "scan"
    /\ i <= Len(der)
    /\ ~IsAnomalous(der[i], threshold_lps)
    /\ IF in_alert
       THEN /\ alerts' = Append(alerts, Summary(Append(alert_rows, der[i])))
            /\ in_alert' = FALSE
            /\ alert_rows' = <<>>
       ELSE UNCHANGED <<alerts, in_alert, alert_rows>>
    /\ i' = i + 1
    /\ UNCHANGED <<pc, source, tarifa, TARIFA, err, df, vazao_df, der, freq, agg,
                   threshold_lps, start>>

\* one iteration of the loop on a row that is not anomalous
DetectNormal ==
    /\ pc = "scan"
    /\ i <= Len(der)
    /\ ~IsAnomalous(der[i], threshold_lps)
    /\ IF in_alert
       THEN /\ alerts' = Append(alerts, Summary(alert_rows))
            /\ in_alert' = FALSE
            /\ alert_rows' = <<>>
       ELSE UNCHANGED <<alerts, in_alert, alert_rows>>
    /\ i' = i + 1
    /\ UNCHANGED <<pc, source, tarifa, TARIFA, err, df, vazao_df, der, freq, agg,
                   threshold_lps, start>>

\* mutant of DetectClose: no "close last"
DetectCloseDropsOpenRun ==
    /\ pc = "scan"
    /\ i > Len(der)
    /\ pc' = "done"
    /\ UNCHANGED <<source, tarifa, TARIFA, err, df, vazao_df, der, freq, agg,
                   threshold_lps, i, in_alert, start, alert_rows, alerts>>

\* after the loop: "close last", then return
DetectClose ==
    /\ pc = "scan"
    /\ i > Len(der)
    /\ alerts' = IF in_alert /\ alert_rows # <<>>
                 THEN Append(alerts, Summary(alert_rows))
                 ELSE alerts
    /\ pc' = "done"
    /\ UNCHANGED <<source, tarifa, TARIFA, err, df, vazao_df, der, freq, agg,
                   threshold_lps, i, in_alert, start, alert_rows>>

----------------------------------------------------------------------------
\* Specifications

\* preprocess, then aggregate_period or detect_leaks, on a loaded frame
Next ==
    \/ Preprocess
    \/ AggregatePeriod
    \/ DetectBegin
    \/ DetectAnomalous
    \/ DetectNormal
    \/ DetectClose

Spec == Init /\ [][Next]_vars

\* preprocess and aggregate_period on frames that straddle bin boundaries
NextAgg == Preprocess \/ AggregatePeriod

SpecAgg == InitAgg /\ [][NextAgg]_vars

\* the whole refresh, from the call of update_all and from the file
NextLoad ==
    \/ UpdateAllTarifa
    \/ LoadData
    \/ DashboardVazaoLoad
    \/ Next

SpecLoad == InitLoad /\ [][NextLoad]_vars

----------------------------------------------------------------------------
\* Properties of detect_leaks

\* the anomaly predicate as the specification words it
ClaimAnomaly(r, thr) ==
    (r.diff_lps > thr) \/ (r.soma_sensores_lps = 0 /\ r.geral_lps > 0)

\* the maximal contiguous runs of anomalous readings, as index pairs <<a, b>>
MaximalRuns(d, thr) ==
    { ab \in (1..Len(d)) \X (1..Len(d)) :
        /\ ab[1] <= ab[2]
        /\ \A j \in ab[1]..ab[2] : ClaimAnomaly(d[j], thr)
        /\ (ab[1] = 1 \/ ~ClaimAnomaly(d[ab[1] - 1], thr))
        /\ (ab[2] = Len(d) \/ ~ClaimAnomaly(d[ab[2] + 1], thr)) }

\* the runs, oldest first
RunSeq(d, thr) ==
    LET R      == MaximalRuns(d, thr)
        starts == SortedSeq({ab[1] : ab \in R})
    IN  [k \in 1..Len(starts) |-> CHOOSE ab \in R : ab[1] = starts[k]]

\* detect_leaks has returned on a frame that is not empty
Returned == pc = "done" /\ der # <<>>

\* C1: when the last reading of a non-empty sequence is anomalous, the last
\* event detect_leaks returns ends at the last reading's timestamp: the run
\* still open at the end of the stream is emitted.
C1_OpenRunEmitted ==
    (Returned /\ ClaimAnomaly(der[Len(der)], threshold_lps))
        => /\ alerts # <<>>
           /\ alerts[Len(alerts)].end = der[Len(der)].ts

C1_Witness ==
    /\ Returned
    /\ ClaimAnomaly(der[Len(der)], threshold_lps)
    /\ Len(der) >= 2
    /\ Len(alerts) >= 2
    /\ alerts[Len(alerts)].end = der[Len(der)].ts

\* C2: the events returned are, oldest first, exactly the maximal contiguous
\* runs of anomalous readings: an event starts at the timestamp of its run's
\* first reading and ends at the timestamp of its run's last anomalous
\* reading, not at the reading that terminates the run.
C2_EventsAreMaximalRuns ==
    Returned =>
        LET runs == RunSeq(der, threshold_lps)
        IN  /\ Len(alerts) = Len(runs)
            /\ \A k \in 1..Len(runs) :
                 /\ alerts[k].start = der[runs[k][1]].ts
                 /\ alerts[k].end = der[runs[k][2]].ts

C2_Witness ==
    /\ Returned
    /\ Len(alerts) = 1
    /\ ~ClaimAnomaly(der[Len(der)], threshold_lps)
    /\ alerts[1].start < alerts[1].end
    /\ alerts[1].end < der[Len(der)].ts

\* C3: an event has type hidden_leak exactly when every reading of its run has
\* sensor sum 0 and some reading of the run has general rate > 0, and type
\* mismatch otherwise, whichever way the run was closed.
C3_TypeOfRun ==
    Returned =>
        LET runs == RunSeq(der, threshold_lps)
        IN  /\ Len(alerts) = Len(runs)
            /\ \A k \in 1..Len(runs) :
                 LET members == runs[k][1]..runs[k][2]
                     hidden  == /\ \A j \in members : der[j].soma_sensores_lps = 0
                                /\ \E j \in members : der[j].geral_lps > 0
                 IN  /\ hidden => alerts[k].type = "hidden_leak"
                     /\ ~hidden => alerts[k].type = "mismatch"

C3_Witness ==
    /\ Returned
    /\ Len(alerts) = 2
    /\ alerts[1].type = "hidden_leak"
    /\ alerts[2].type = "mismatch"

\* C10: an event's duration_s is end - start when its run has more than one
\* reading and that reading's elapsed seconds when its run has exactly one,
\* for runs closed by a reading and for the run closed at the end of the stream.
C10_DurationOfRun ==
    Returned =>
        LET runs == RunSeq(der, threshold_lps)
        IN  /\ Len(alerts) = Len(runs)
            /\ \A k \in 1..Len(runs) :
                 IF runs[k][2] > runs[k][1]
                 THEN alerts[k].duration_s = der[runs[k][2]].ts - der[runs[k][1]].ts
                 ELSE alerts[k].duration_s = der[runs[k][1]].delta_s

C10_Witness ==
    /\ Returned
    /\ Len(alerts) = 2
    /\ alerts[1].duration_s = 1
    /\ alerts[1].start = alerts[1].end
    /\ alerts[2].duration_s = 2
    /\ alerts[2].start = alerts[2].end

----------------------------------------------------------------------------
\* Properties of preprocess and aggregate_period

\* C9: preprocess keeps the length; the first elapsed time is 1 and the others
\* are the seconds since the previous reading; the general rate is the general
\* flow divided by 60 and volume_general is that rate times the elapsed time.
C9_Derivation ==
    (pc \in {"derived", "aggregated", "scan", "done"} /\ df # <<>>) =>
        /\ Len(der) = Len(df)
        /\ der[1].delta_s = 1
        /\ \A k \in 2..Len(df) : der[k].delta_s = df[k].ts - df[k - 1].ts
        /\ \A k \in 1..Len(df) :
             /\ der[k].ts = df[k].ts
             /\ 60 * der[k].geral_lps = df[k].flow
             /\ der[k].volume_geral_l = der[k].geral_lps * der[k].delta_s

C9_Witness ==
    /\ pc = "derived"
    /\ Len(der) >= 2
    /\ der[1].volume_geral_l > 0
    /\ der[2].delta_s = 2
    /\ der[2].volume_geral_l = 6

\* C8: the volume_general of the buckets adds up to the volume_general of the
\* readings, for every bucket width: each reading is counted in one bucket.
C8_AggregationAdditive ==
    (pc = "aggregated" /\ der # <<>>) =>
        SumSeq([j \in 1..Len(agg) |-> agg[j].volume_geral_l])
          = SumSeq([k \in 1..Len(der) |-> der[k].volume_geral_l])

C8_Witness ==
    /\ pc = "aggregated"
    /\ freq = "W"
    /\ Len(agg) = 2
    /\ agg[1].volume_geral_l > 0
    /\ agg[2].volume_geral_l > 0

----------------------------------------------------------------------------
\* Properties of the loaders and of update_all

\* load_data has been called and has returned or raised
LoadActed ==
    \/ pc \in {"loaded", "derived", "aggregated", "scan", "done"}
    \/ pc = "raised" /\ err # "ValueError"

\* positions in the file of the rows whose timestamp parses
ParseableRows == { k \in 1..Len(source.rows) : source.rows[k].cell.ok }

RowsOf(d) == { d[k].row : k \in 1..Len(d) }

\* C4: given a source with rows whose timestamp fails to parse, the loader
\* does not raise: it discards those rows and returns every other row.
C4_UnparseableRowsDiscarded ==
    (source.kind = "table" /\ Unparseable(source.rows)) =>
        /\ LoadActed =>
             /\ err = "none"
             /\ Len(df) = Cardinality(ParseableRows)
             /\ RowsOf(df) = ParseableRows
        /\ pc = "vazao_loaded" =>
             /\ Len(vazao_df) = Cardinality(ParseableRows)
             /\ RowsOf(vazao_df) = ParseableRows

\* the part of C4 that dashboard_vazao.py meets
VazaoUnparseableRowsDiscarded ==
    pc = "vazao_loaded" =>
        /\ Len(vazao_df) = Cardinality(ParseableRows)
        /\ RowsOf(vazao_df) = ParseableRows

\* C5: on an absent or empty source load_data returns the empty sequence
\* without raising, and preprocess, aggregate_period and detect_leaks return
\* empty results on it without raising.
C5_EmptySourceEmptyResults ==
    (LoadActed /\ (source.kind \in {"absent", "zero_byte"} \/ source.rows = <<>>)) =>
        /\ err = "none"
        /\ df = <<>>
        /\ pc \in {"derived", "aggregated", "scan", "done"} => der = <<>>
        /\ pc = "aggregated" => agg = <<>>
        /\ pc # "scan"
        /\ pc = "done" => alerts = <<>>

\* the part of C5 the code meets: the absent file and the file of a header line
EmptyResultsOnAbsentOrHeaderOnly ==
    (LoadActed /\ (source.kind = "absent" \/ (source.kind = "table" /\ source.rows = <<>>))) =>
        /\ err = "none"
        /\ df = <<>>
        /\ pc \in {"derived", "aggregated", "scan", "done"} => der = <<>>
        /\ pc = "aggregated" => agg = <<>>
        /\ pc # "scan"
        /\ pc = "done" => alerts = <<>>

\* C6: given an invalid tariff text, update_all falls back to the default
\* tariff 4.50 and goes on instead of failing.
C6_InvalidTarifaFallsBack ==
    (pc \notin {"call", "vazao_loaded"} /\ ~IsFalsy(tarifa) /\ ~IsNumericText(tarifa)) =>
        /\ TARIFA = TARIFA_POR_M3
        /\ pc # "raised"

\* the part of C6 the code meets: no text, or the empty text, gives the default
MissingTarifaFallsBack ==
    (pc \notin {"call", "vazao_loaded"} /\ IsFalsy(tarifa)) =>
        /\ TARIFA = TARIFA_POR_M3
        /\ err # "ValueError"

\* C7: for every order of the input rows, the loader's output is ascending by
\* timestamp and rows with equal timestamps keep their input order.
C7_SortedAndStable ==
    pc = "loaded" =>
        \A a, b \in 1..Len(df) :
            a < b => /\ df[a].ts <= df[b].ts
                     /\ df[a].ts = df[b].ts => df[a].row < df[b].row

\* the part of C7 the code meets: the output is ascending by timestamp
LoadedSorted ==
    pc = "loaded" =>
        \A a, b \in 1..Len(df) : a < b => df[a].ts <= df[b].ts

----------------------------------------------------------------------------
\* Properties of the event fields

\* C11: an event's volume_l is the sum of volume_general over exactly the
\* readings of its run, the terminating reading contributing nothing, and its
\* max_diff_lps is the largest rate discrepancy among those readings.
C11_VolumeAndPeakOfRun ==
    Returned =>
        LET runs == RunSeq(der, threshold_lps)
        IN  /\ Len(alerts) = Len(runs)
            /\ \A k \in 1..Len(runs) :
                 LET members == runs[k][1]..runs[k][2]
                 IN  /\ alerts[k].volume_l =
                          SumSeq([j \in 1..(runs[k][2] - runs[k][1] + 1) |->
                                    der[runs[k][1] + j - 1].volume_geral_l])
                     /\ \E j \in members : alerts[k].max_diff_lps = der[j].diff_lps
                     /\ \A j \in members : alerts[k].max_diff_lps >= der[j].diff_lps

C11_Witness ==
    /\ Returned
    /\ Len(alerts) = 1
    /\ ~ClaimAnomaly(der[Len(der)], threshold_lps)
    /\ der[Len(der)].volume_geral_l > 0
    /\ alerts[1].start < alerts[1].end
    /\ alerts[1].volume_l = 5
    /\ alerts[1].max_diff_lps = 3
    /\ alerts[1].max_diff_lps > der[Len(der) - 1].diff_lps

====
